---------------------------- MODULE Spec2Model ----------------------------
(***************************************************************************)
(* Model of the acmg command line tool (src/main.rs).                      *)
(*                                                                         *)
(* Text is modelled as a sequence of one-character strings, so that the    *)
(* regular expressions, to_uppercase, trim, split and the Display          *)
(* renderings are computed character by character.  The characters are     *)
(* ASCII; the descriptions of the rule table are not modelled (every       *)
(* entry has its own (category, strength, code), so the derived ordering   *)
(* of EvidenceCode never reaches the description field), and neither is    *)
(* the floating point calc_post_prob_path.                                 *)
(***************************************************************************)
EXTENDS Integers, Sequences, FiniteSets

VARIABLES
    acmg_evidence,  \* run_info_command: the raw argument
    evidence_list,  \* run_info_command: the tokens of normalize_input
    idx,            \* position of the iterator feeding BTreeSet::from_iter
    set,            \* the BTreeSet<Evidence>, as its ascending sequence
    cursor,         \* position of the `for evidence in set` loop
    score,          \* run_info_command: the running total
    out,            \* the lines printed so far
    err,            \* the payload of the panic raised by unwrap()
    pc,             \* control point
    arg,            \* argument of a single function call
    ret             \* value returned by that call

vars == <<acmg_evidence, evidence_list, idx, set, cursor, score, out, err, pc, arg, ret>>

---------------------------------------------------------------------------
(* Bounds of the checked input spaces.                                     *)

\* number of tokens in an argument of run_info_command
MaxTokens == 3
\* number of pieces an argument of normalize_input is assembled from
MaxParts == 4
\* number of fragments a token given to parse_evidence is assembled from
MaxFrags == 3
\* classification is called with every score in -MaxAbsScore..MaxAbsScore
MaxAbsScore == 60

---------------------------------------------------------------------------
(* Characters and strings.                                                 *)

LowerCase == <<"a", "b", "c", "d", "e", "f", "g", "h", "i", "j", "k", "l", "m",
               "n", "o", "p", "q", "r", "s", "t", "u", "v", "w", "x", "y", "z">>
UpperCase == <<"A", "B", "C", "D", "E", "F", "G", "H", "I", "J", "K", "L", "M",
               "N", "O", "P", "Q", "R", "S", "T", "U", "V", "W", "X", "Y", "Z">>
DecimalDigits == <<"0", "1", "2", "3", "4", "5", "6", "7", "8", "9">>

Range(s) == {s[i] : i \in DOMAIN s}

\* char::to_uppercase on an ASCII character
char_to_uppercase(c) ==
    IF \E i \in DOMAIN LowerCase : LowerCase[i] = c
        THEN UpperCase[CHOOSE i \in DOMAIN LowerCase : LowerCase[i] = c]
        ELSE c

\* str::to_uppercase
to_uppercase(s) == [i \in DOMAIN s |-> char_to_uppercase(s[i])]

\* char::is_whitespace, for the white space that can occur in an argument
is_whitespace(c) == c \in {" ", "\t", "\n", "\r"}

RECURSIVE trim_start(_)
trim_start(s) ==
    IF s # <<>> /\ is_whitespace(Head(s)) THEN trim_start(Tail(s)) ELSE s

RECURSIVE trim_end(_)
trim_end(s) ==
    IF s # <<>> /\ is_whitespace(s[Len(s)])
        THEN trim_end(SubSeq(s, 1, Len(s) - 1))
        ELSE s

\* str::trim
trim(s) == trim_end(trim_start(s))

\* Display of an i32 that is not negative
RECURSIVE i32_fmt(_)
i32_fmt(n) ==
    IF n < 10 THEN <<DecimalDigits[n + 1]>>
              ELSE i32_fmt(n \div 10) \o <<DecimalDigits[(n % 10) + 1]>>

\* Formatter::pad without a precision: shorter text is filled with spaces
\* on the right (the default alignment of text), longer text is kept whole
RECURSIVE pad(_, _)
pad(s, width) == IF Len(s) >= width THEN s ELSE pad(s \o <<" ">>, width)

---------------------------------------------------------------------------
(* The enums and their derived orderings (declaration order).              *)

Category == {"Pathogenic", "Benign"}
EvidenceStrength == {"StandAlone", "VeryStrong", "Strong", "Moderate", "Supporting"}
AcmgClassification ==
    {"Pathogenic", "LikelyPathogenic", "UncertainSignificance", "LikelyBenign", "Benign"}

\* Option<EvidenceStrength>: None, or Some(m) written m
None == "None"

Category_ord(c) == IF c = "Pathogenic" THEN 0 ELSE 1

EvidenceStrength_ord(s) ==
    CASE s = "StandAlone" -> 0
      [] s = "VeryStrong" -> 1
      [] s = "Strong"     -> 2
      [] s = "Moderate"   -> 3
      [] s = "Supporting" -> 4

\* derived Ord of Option: None is less than every Some
Option_ord(m) == IF m = None THEN 0 ELSE 1 + EvidenceStrength_ord(m)

\* Debug of EvidenceStrength: the name of the variant
EvidenceStrength_debug(s) ==
    CASE s = "StandAlone" -> <<"S", "t", "a", "n", "d", "A", "l", "o", "n", "e">>
      [] s = "VeryStrong" -> <<"V", "e", "r", "y", "S", "t", "r", "o", "n", "g">>
      [] s = "Strong"     -> <<"S", "t", "r", "o", "n", "g">>
      [] s = "Moderate"   -> <<"M", "o", "d", "e", "r", "a", "t", "e">>
      [] s = "Supporting" -> <<"S", "u", "p", "p", "o", "r", "t", "i", "n", "g">>

EvidenceStrength_points(s) ==
    CASE s \in {"StandAlone", "VeryStrong"} -> 8
      [] s = "Strong"     -> 4
      [] s = "Moderate"   -> 2
      [] s = "Supporting" -> 1

---------------------------------------------------------------------------
(* The rule table.                                                         *)

Entry(k, c, s, n) == [key |-> k, category |-> c, strength |-> s, code |-> n]

EvidenceCodeEntries == <<
    Entry(<<"P", "V", "S", "1">>, "Pathogenic", "VeryStrong", 1),
    Entry(<<"P", "S", "1">>, "Pathogenic", "Strong", 1),
    Entry(<<"P", "S", "2">>, "Pathogenic", "Strong", 2),
    Entry(<<"P", "S", "3">>, "Pathogenic", "Strong", 3),
    Entry(<<"P", "S", "4">>, "Pathogenic", "Strong", 4),
    Entry(<<"P", "M", "1">>, "Pathogenic", "Moderate", 1),
    Entry(<<"P", "M", "2">>, "Pathogenic", "Moderate", 2),
    Entry(<<"P", "M", "3">>, "Pathogenic", "Moderate", 3),
    Entry(<<"P", "M", "4">>, "Pathogenic", "Moderate", 4),
    Entry(<<"P", "M", "5">>, "Pathogenic", "Moderate", 5),
    Entry(<<"P", "M", "6">>, "Pathogenic", "Moderate", 6),
    Entry(<<"P", "P", "1">>, "Pathogenic", "Supporting", 1),
    Entry(<<"P", "P", "2">>, "Pathogenic", "Supporting", 2),
    Entry(<<"P", "P", "3">>, "Pathogenic", "Supporting", 3),
    Entry(<<"P", "P", "4">>, "Pathogenic", "Supporting", 4),
    Entry(<<"P", "P", "5">>, "Pathogenic", "Supporting", 5),
    Entry(<<"B", "A", "1">>, "Benign", "StandAlone", 1),
    Entry(<<"B", "S", "1">>, "Benign", "Strong", 1),
    Entry(<<"B", "S", "2">>, "Benign", "Strong", 2),
    Entry(<<"B", "S", "3">>, "Benign", "Strong", 3),
    Entry(<<"B", "S", "4">>, "Benign", "Strong", 4),
    Entry(<<"B", "P", "1">>, "Benign", "Supporting", 1),
    Entry(<<"B", "P", "2">>, "Benign", "Supporting", 2),
    Entry(<<"B", "P", "3">>, "Benign", "Supporting", 3),
    Entry(<<"B", "P", "4">>, "Benign", "Supporting", 4),
    Entry(<<"B", "P", "5">>, "Benign", "Supporting", 5),
    Entry(<<"B", "P", "6">>, "Benign", "Supporting", 6),
    Entry(<<"B", "P", "7">>, "Benign", "Supporting", 7)
>>

\* HashMap<&str, EvidenceCode>: a later entry with the same key replaces
\* an earlier one
EVIDENCE_CODES ==
    [k \in {e.key : e \in Range(EvidenceCodeEntries)} |->
        LET last == CHOOSE i \in DOMAIN EvidenceCodeEntries :
                        /\ EvidenceCodeEntries[i].key = k
                        /\ \A j \in DOMAIN EvidenceCodeEntries :
                               EvidenceCodeEntries[j].key = k => j <= i
            e == EvidenceCodeEntries[last]
        IN  [category |-> e.category, strength |-> e.strength, code |-> e.code]]

---------------------------------------------------------------------------
(* RE = ([BP][AVSMP]{1,2}\d{1})(_([A-Z]+))?  and Regex::captures, which     *)
(* searches the text for the leftmost match.                               *)

IsCategoryLetter(c) == c \in {"B", "P"}
IsStrengthLetter(c) == c \in {"A", "V", "S", "M", "P"}
IsDigit(c) == c \in Range(DecimalDigits)
IsUpperLetter(c) == c \in Range(UpperCase)

\* length of group 1 for a match that starts at i, 0 when there is none;
\* the greedy {1,2} tries two strength letters first
RE_group1_len(s, i) ==
    IF /\ i + 3 <= Len(s)
       /\ IsCategoryLetter(s[i])
       /\ IsStrengthLetter(s[i + 1])
       /\ IsStrengthLetter(s[i + 2])
       /\ IsDigit(s[i + 3])
    THEN 4
    ELSE IF /\ i + 2 <= Len(s)
            /\ IsCategoryLetter(s[i])
            /\ IsStrengthLetter(s[i + 1])
            /\ IsDigit(s[i + 2])
         THEN 3
         ELSE 0

\* [A-Z]+ is greedy: the first position from j on that holds no letter
RECURSIVE RE_letters_end(_, _)
RE_letters_end(s, j) ==
    IF j <= Len(s) /\ IsUpperLetter(s[j]) THEN RE_letters_end(s, j + 1) ELSE j

\* the groups of the match that starts at i
RE_groups_at(s, i) ==
    LET j == i + RE_group1_len(s, i)
        e == IF j <= Len(s) /\ s[j] = "_" THEN RE_letters_end(s, j + 1) ELSE j + 1
    IN  [matched |-> TRUE,
         group1 |-> SubSeq(s, i, j - 1),
         has_group3 |-> e > j + 1,
         group3 |-> IF e > j + 1 THEN SubSeq(s, j + 1, e - 1) ELSE <<>>]

RECURSIVE RE_search(_, _)
RE_search(s, i) ==
    IF i > Len(s) THEN [matched |-> FALSE]
    ELSE IF RE_group1_len(s, i) > 0 THEN RE_groups_at(s, i)
    ELSE RE_search(s, i + 1)

RE_captures(s) == RE_search(s, 1)

---------------------------------------------------------------------------
(* parse_evidence                                                          *)

Ok(v) == [kind |-> "Ok", value |-> v]
\* Err(format!(text, args...))
Err(t, a) == [kind |-> "Err", text |-> t, args |-> a]

STANDALONE == <<"S", "T", "A", "N", "D", "A", "L", "O", "N", "E">>
VERYSTRONG == <<"V", "E", "R", "Y", "S", "T", "R", "O", "N", "G">>
STRONG     == <<"S", "T", "R", "O", "N", "G">>
MODERATE   == <<"M", "O", "D", "E", "R", "A", "T", "E">>
SUPPORTING == <<"S", "U", "P", "P", "O", "R", "T", "I", "N", "G">>

\* a variant that quotes the upper-cased token
invalid_modifier_quoting_uppercase(s, evidence) ==
    Err("Invalid modifier '{}' for evidence code {}", <<s, to_uppercase(evidence)>>)

\* the last arm of the match on the modifier
invalid_modifier(s, evidence) ==
    Err("Invalid modifier '{}' for evidence code {}", <<s, evidence>>)

\* a variant that resolves the modifier before it looks the code up
parse_evidence_modifier_first(evidence) ==
    LET caps == RE_captures(to_uppercase(evidence)) IN
    IF caps.matched
    THEN LET ev_code_str == caps.group1
             s == to_uppercase(IF caps.has_group3 THEN caps.group3 ELSE <<>>)
         IN  IF s \notin {STANDALONE, VERYSTRONG, STRONG, MODERATE, SUPPORTING, <<>>}
             THEN invalid_modifier(s, evidence)
             ELSE IF ev_code_str \notin DOMAIN EVIDENCE_CODES
             THEN Err("Invalid evidence code {}", <<ev_code_str>>)
             ELSE Ok([evidence_code |-> EVIDENCE_CODES[ev_code_str],
                      modifier |-> CASE s = STANDALONE -> "StandAlone"
                                     [] s = VERYSTRONG -> "VeryStrong"
                                     [] s = STRONG     -> "Strong"
                                     [] s = MODERATE   -> "Moderate"
                                     [] s = SUPPORTING -> "Supporting"
                                     [] s = <<>>       -> None])
    ELSE Err("Unable to parse evidence code {}", <<evidence>>)

parse_evidence(evidence) ==
    LET caps == RE_captures(to_uppercase(evidence)) IN
    IF caps.matched
    THEN LET ev_code_str == caps.group1 IN
         IF ev_code_str \notin DOMAIN EVIDENCE_CODES
         THEN Err("Invalid evidence code {}", <<ev_code_str>>)
         ELSE LET evidence_code == EVIDENCE_CODES[ev_code_str]
                  s == to_uppercase(IF caps.has_group3 THEN caps.group3 ELSE <<>>)
                  Made(m) == Ok([evidence_code |-> evidence_code, modifier |-> m])
              IN  CASE s = STANDALONE -> Made("StandAlone")
                    [] s = VERYSTRONG -> Made("VeryStrong")
                    [] s = STRONG     -> Made("Strong")
                    [] s = MODERATE   -> Made("Moderate")
                    [] s = SUPPORTING -> Made("Supporting")
                    [] s = <<>>       -> Made(None)
                    [] OTHER -> invalid_modifier(s, evidence)
    ELSE Err("Unable to parse evidence code {}", <<evidence>>)

---------------------------------------------------------------------------
(* normalize_input                                                         *)

\* Regex [\[\]] and replace_all(.., "")
remove_brackets(s) == SelectSeq(s, LAMBDA c : c \notin {"[", "]"})

IsSeparator(c) == c \in {" ", ","}

RECURSIVE skip_separators(_)
skip_separators(s) ==
    IF s # <<>> /\ IsSeparator(Head(s)) THEN skip_separators(Tail(s)) ELSE s

\* Regex [ ,]+ and split: the pieces between the matches, the empty piece
\* before a leading match and after a trailing match included
RECURSIVE split(_, _, _)
split(s, piece, pieces) ==
    IF s = <<>> THEN Append(pieces, piece)
    ELSE IF IsSeparator(Head(s))
         THEN split(skip_separators(s), <<>>, Append(pieces, piece))
         ELSE split(Tail(s), Append(piece, Head(s)), pieces)

\* a variant that does not trim
normalize_input_without_trim(s) == split(remove_brackets(s), <<>>, <<>>)

normalize_input(s) ==
    LET cleaned == trim(remove_brackets(s)) IN split(cleaned, <<>>, <<>>)

---------------------------------------------------------------------------
(* Display, points, ordering, classification                               *)

\* a variant that writes every strength with one letter
EvidenceCode_fmt_one_letter(c) ==
    LET category == IF c.category = "Pathogenic" THEN <<"P">> ELSE <<"B">>
        strength == CASE c.strength = "StandAlone" -> <<"A">>
                      [] c.strength = "VeryStrong" -> <<"V">>
                      [] c.strength = "Strong"     -> <<"S">>
                      [] c.strength = "Moderate"   -> <<"M">>
                      [] c.strength = "Supporting" -> <<"P">>
    IN  category \o strength \o i32_fmt(c.code)

EvidenceCode_fmt(c) ==
    LET category == IF c.category = "Pathogenic" THEN <<"P">> ELSE <<"B">>
        strength == CASE c.strength = "StandAlone" -> <<"A">>
                      [] c.strength = "VeryStrong" -> <<"V", "S">>
                      [] c.strength = "Strong"     -> <<"S">>
                      [] c.strength = "Moderate"   -> <<"M">>
                      [] c.strength = "Supporting" -> <<"P">>
    IN  category \o strength \o i32_fmt(c.code)

\* Display for Evidence, with the width the format string asks for
Evidence_fmt(e, width) ==
    IF e.modifier # None
        THEN pad(EvidenceCode_fmt(e.evidence_code) \o <<"_">>
                    \o EvidenceStrength_debug(e.modifier), width)
        ELSE pad(EvidenceCode_fmt(e.evidence_code), width)

\* a variant that always scores the default strength of the code
Evidence_points_of_default_strength(e) ==
    LET points == EvidenceStrength_points(e.evidence_code.strength)
    IN  IF e.evidence_code.category = "Pathogenic" THEN points ELSE 0 - points

Evidence_points(e) ==
    LET points == EvidenceStrength_points(
                      IF e.modifier # None THEN e.modifier
                                           ELSE e.evidence_code.strength)
    IN  IF e.evidence_code.category = "Pathogenic" THEN points ELSE 0 - points

\* derived Ord: the fields in declaration order; -1 less, 0 equal, 1 greater
int_cmp(a, b) == IF a < b THEN 0 - 1 ELSE IF a > b THEN 1 ELSE 0

EvidenceCode_cmp(a, b) ==
    IF a.category # b.category
        THEN int_cmp(Category_ord(a.category), Category_ord(b.category))
    ELSE IF a.strength # b.strength
        THEN int_cmp(EvidenceStrength_ord(a.strength), EvidenceStrength_ord(b.strength))
    ELSE int_cmp(a.code, b.code)

Evidence_cmp(a, b) ==
    IF EvidenceCode_cmp(a.evidence_code, b.evidence_code) # 0
        THEN EvidenceCode_cmp(a.evidence_code, b.evidence_code)
        ELSE int_cmp(Option_ord(a.modifier), Option_ord(b.modifier))

\* a variant that keeps an element that is already there (a sorted list)
BTreeSet_insert_keeping_duplicates(s, e) ==
    LET n == Cardinality({i \in DOMAIN s : Evidence_cmp(s[i], e) <= 0})
    IN  SubSeq(s, 1, n) \o <<e>> \o SubSeq(s, n + 1, Len(s))

\* a variant that keeps the order of arrival (a list without duplicates)
BTreeSet_insert_at_end(s, e) ==
    IF \E i \in DOMAIN s : Evidence_cmp(s[i], e) = 0 THEN s ELSE Append(s, e)

\* BTreeSet::insert on the ascending sequence of the set's elements
BTreeSet_insert(s, e) ==
    IF \E i \in DOMAIN s : Evidence_cmp(s[i], e) = 0 THEN s
    ELSE LET n == Cardinality({i \in DOMAIN s : Evidence_cmp(s[i], e) < 0})
         IN  SubSeq(s, 1, n) \o <<e>> \o SubSeq(s, n + 1, Len(s))

\* a variant whose thresholds are exclusive
classification_exclusive(points) ==
    IF points > 10 THEN "Pathogenic"
    ELSE IF points > 6 THEN "LikelyPathogenic"
    ELSE IF points > 0 THEN "UncertainSignificance"
    ELSE IF points > 0 - 6 THEN "LikelyBenign"
    ELSE "Benign"

classification(points) ==
    IF points >= 10 THEN "Pathogenic"
    ELSE IF points >= 6 THEN "LikelyPathogenic"
    ELSE IF points >= 0 THEN "UncertainSignificance"
    ELSE IF points >= 0 - 6 THEN "LikelyBenign"
    ELSE "Benign"

---------------------------------------------------------------------------
(* The input spaces.                                                       *)

RECURSIVE Concat(_)
Concat(ss) == IF ss = <<>> THEN <<>> ELSE Head(ss) \o Concat(Tail(ss))

SeqsUpTo(S, n) == UNION {[1..k -> S] : k \in 0..n}

\* every (category, strength, code) of the table with every modifier state
AllEvidence ==
    {[evidence_code |-> EVIDENCE_CODES[k], modifier |-> m] :
        k \in DOMAIN EVIDENCE_CODES, m \in {None} \cup EvidenceStrength}

\* tokens of an argument of run_info_command: three codes, one of them also
\* with a modifier, and two tokens that do not parse
TokenPool ==
    {<<"P", "V", "S", "1">>,
     <<"P", "M", "2">>,
     <<"p", "m", "2", "_", "s", "u", "p", "p", "o", "r", "t", "i", "n", "g">>,
     <<"B", "A", "1">>,
     <<"P", "M", "2", "_", "N", "o", "n", "s", "e", "n", "s", "e">>,
     <<"P", "Z", "Z", "9">>}

Separators == {<<" ">>, <<",", " ">>}

RECURSIVE Join(_, _)
Join(toks, seps) ==
    IF Len(toks) <= 1 THEN Concat(toks)
    ELSE Head(toks) \o Head(seps) \o Join(Tail(toks), Tail(seps))

Bracketed(s, b) == IF b THEN <<"[">> \o s \o <<"]">> ELSE s

RunInputs ==
    {Bracketed(Join(toks, seps), b) :
        <<toks, seps>> \in UNION {[1..k -> TokenPool] \X [1..(k - 1) -> Separators] :
                                     k \in 1..MaxTokens},
        b \in BOOLEAN}

\* pieces of an argument of normalize_input
NormalizeParts ==
    {<<"[">>, <<"]">>, <<" ">>, <<",">>, <<"\t">>, <<"P", "M", "2">>, <<"X">>}

NormalizeInputs == {Concat(ps) : ps \in SeqsUpTo(NormalizeParts, MaxParts)}

\* fragments of a token given to parse_evidence
TokenFragments ==
    {<<"P", "V", "S", "1">>, <<"P", "M", "2">>, <<"p", "m", "2">>, <<"B", "A", "1">>,
     <<"P", "S", "9">>, <<"P", "P">>, <<"P">>, <<"X">>, <<"1">>, <<"2">>, <<"_">>,
     <<"S", "t", "r", "o", "n", "g">>,
     <<"S", "T", "A", "N", "D", "A", "L", "O", "N", "E">>,
     <<"s", "u", "p", "p", "o", "r", "t", "i", "n", "g">>,
     <<"V", "e", "r", "y", "S", "t", "r", "o", "n", "g">>,
     <<"m", "o", "d", "e", "r", "a", "t", "e">>,
     <<"N", "o", "n", "s", "e", "n", "s", "e">>}

ParseInputs == {Concat(fs) : fs \in SeqsUpTo(TokenFragments, MaxFrags)}

ScoreInputs == (0 - MaxAbsScore)..MaxAbsScore

---------------------------------------------------------------------------
(* run_info_command, one step at a time.                                   *)

Unset == <<>>

Idle == /\ arg = Unset /\ ret = Unset

Entered ==
    /\ evidence_list = <<>> /\ idx = 0 /\ set = <<>> /\ cursor = 0
    /\ score = 0 /\ out = <<>> /\ err = Unset

\* let evidence_list = normalize_input(&acmg_evidence);
Normalize ==
    /\ pc = "start"
    /\ evidence_list' = normalize_input(acmg_evidence)
    /\ idx' = 1
    /\ pc' = "collect"
    /\ UNCHANGED <<acmg_evidence, set, cursor, score, out, err, arg, ret>>

\* BTreeSet::from_iter pulls the next token through the map closure; the
\* token parses and the Evidence is added to the set
CollectOk ==
    /\ pc = "collect"
    /\ idx <= Len(evidence_list)
    /\ parse_evidence(evidence_list[idx]).kind = "Ok"
    /\ set' = BTreeSet_insert(set, parse_evidence(evidence_list[idx]).value)
    /\ idx' = idx + 1
    /\ UNCHANGED <<acmg_evidence, evidence_list, cursor, score, out, err, pc, arg, ret>>

\* a variant that drops a token that does not parse (filter_map)
CollectSkip ==
    /\ pc = "collect"
    /\ idx <= Len(evidence_list)
    /\ parse_evidence(evidence_list[idx]).kind = "Err"
    /\ idx' = idx + 1
    /\ UNCHANGED <<acmg_evidence, evidence_list, set, cursor, score, out, err, pc, arg, ret>>

\* the token does not parse: unwrap() panics with the error
CollectPanic ==
    /\ pc = "collect"
    /\ idx <= Len(evidence_list)
    /\ parse_evidence(evidence_list[idx]).kind = "Err"
    /\ err' = parse_evidence(evidence_list[idx])
    /\ pc' = "panicked"
    /\ UNCHANGED <<acmg_evidence, evidence_list, idx, set, cursor, score, out, arg, ret>>

\* the iterator is exhausted; let mut score = 0; the loop starts
StartLoop ==
    /\ pc = "collect"
    /\ idx > Len(evidence_list)
    /\ score' = 0
    /\ cursor' = 1
    /\ pc' = "loop"
    /\ UNCHANGED <<acmg_evidence, evidence_list, idx, set, out, err, arg, ret>>

\* println!("{:4}:{:2} '{}'", evidence, points, evidence_code.description)
\* the description is a field of evidence_code, which stands for it here
ReportLine(evidence) ==
    [line |-> "evidence",
     evidence |-> Evidence_fmt(evidence, 4),
     points |-> Evidence_points(evidence),
     description |-> evidence.evidence_code]

\* one iteration of `for evidence in set`
PrintEvidence ==
    /\ pc = "loop"
    /\ cursor <= Len(set)
    /\ out' = Append(out, ReportLine(set[cursor]))
    /\ score' = score + Evidence_points(set[cursor])
    /\ cursor' = cursor + 1
    /\ UNCHANGED <<acmg_evidence, evidence_list, idx, set, err, pc, arg, ret>>

\* the four closing println!s; the value of the last one is a float and is
\* not modelled
PrintSummary ==
    /\ pc = "loop"
    /\ cursor > Len(set)
    /\ out' = out \o <<[line |-> "--------"],
                       [line |-> "Classification", value |-> classification(score)],
                       [line |-> "ACMG Score", value |-> score],
                       [line |-> "Post Prob Path"]>>
    /\ pc' = "done"
    /\ UNCHANGED <<acmg_evidence, evidence_list, idx, set, cursor, score, err, arg, ret>>

Init ==
    /\ acmg_evidence \in RunInputs
    /\ pc = "start"
    /\ Entered /\ Idle

Next ==
    \/ Normalize
    \/ CollectOk
    \/ CollectPanic
    \/ StartLoop
    \/ PrintEvidence
    \/ PrintSummary

Spec == Init /\ [][Next]_vars

\* the same command on arguments assembled from brackets, separators,
\* white space and text
InitNormalize ==
    /\ acmg_evidence \in NormalizeInputs
    /\ pc = "start"
    /\ Entered /\ Idle

SpecNormalize == InitNormalize /\ [][Next]_vars

---------------------------------------------------------------------------
(* Single calls of the pure functions.                                     *)

NotRunning == acmg_evidence = <<>> /\ Entered

Frame == <<acmg_evidence, evidence_list, idx, set, cursor, score, out, err, arg>>

CallParseEvidence ==
    /\ pc = "call parse_evidence"
    /\ ret' = parse_evidence(arg)
    /\ pc' = "parse_evidence returned"
    /\ UNCHANGED Frame

InitParse ==
    /\ arg \in ParseInputs /\ ret = Unset
    /\ pc = "call parse_evidence"
    /\ NotRunning

NextParse == CallParseEvidence

SpecParse == InitParse /\ [][NextParse]_vars

CallPoints ==
    /\ pc = "call points"
    /\ ret' = Evidence_points(arg)
    /\ pc' = "points returned"
    /\ UNCHANGED Frame

InitPoints ==
    /\ arg \in AllEvidence /\ ret = Unset
    /\ pc = "call points"
    /\ NotRunning

NextPoints == CallPoints

SpecPoints == InitPoints /\ [][NextPoints]_vars

\* evidence.to_string()
CallToString ==
    /\ pc = "call to_string"
    /\ ret' = Evidence_fmt(arg, 0)
    /\ pc' = "to_string returned"
    /\ UNCHANGED Frame

\* parse_evidence(&text) on the text just rendered
CallReparse ==
    /\ pc = "to_string returned"
    /\ ret' = parse_evidence(ret)
    /\ pc' = "reparse returned"
    /\ UNCHANGED Frame

InitRoundTrip ==
    /\ arg \in AllEvidence /\ ret = Unset
    /\ pc = "call to_string"
    /\ NotRunning

NextRoundTrip == CallToString \/ CallReparse

SpecRoundTrip == InitRoundTrip /\ [][NextRoundTrip]_vars

CallClassification ==
    /\ pc = "call classification"
    /\ ret' = classification(arg)
    /\ pc' = "classification returned"
    /\ UNCHANGED Frame

InitClassification ==
    /\ arg \in ScoreInputs /\ ret = Unset
    /\ pc = "call classification"
    /\ NotRunning

NextClassification == CallClassification

SpecClassification == InitClassification /\ [][NextClassification]_vars

---------------------------------------------------------------------------
(* Properties of the single calls.                                         *)

\* the magnitude of a strength, as the point system states it
Magnitude(s) ==
    CASE s = "StandAlone" -> 8
      [] s = "VeryStrong" -> 8
      [] s = "Strong"     -> 4
      [] s = "Moderate"   -> 2
      [] s = "Supporting" -> 1

EffectiveStrength(e) ==
    IF e.modifier \in EvidenceStrength THEN e.modifier ELSE e.evidence_code.strength

\* C1: for every Evidence (any of the 28 codes, no modifier or any of the
\* five), points is the magnitude of the effective strength (the modifier if
\* set, else the default strength of the code; StandAlone 8, VeryStrong 8,
\* Strong 4, Moderate 2, Supporting 1), positive for a Pathogenic code and
\* negative for a Benign one.
C1_PointsAreSignedMagnitude ==
    pc = "points returned" =>
        /\ arg.evidence_code.category = "Pathogenic" =>
               ret = Magnitude(EffectiveStrength(arg))
        /\ arg.evidence_code.category = "Benign" =>
               ret = 0 - Magnitude(EffectiveStrength(arg))

\* a Benign StandAlone code lowered to Supporting has been scored -1
C1_Witness ==
    /\ pc = "points returned"
    /\ arg.evidence_code = [category |-> "Benign", strength |-> "StandAlone", code |-> 1]
    /\ arg.modifier = "Supporting"
    /\ ret = 0 - 1

\* C4: classification is defined for every score and is Pathogenic from 10
\* up, LikelyPathogenic from 6 to 9, UncertainSignificance from 0 to 5,
\* LikelyBenign from -6 to -1 and Benign below -6; 10, 9, 6, 5, 0, -1, -6
\* and -7 fall as listed.
C4_ClassificationThresholds ==
    pc = "classification returned" =>
        /\ ret \in AcmgClassification
        /\ ret = "Pathogenic" <=> arg >= 10
        /\ ret = "LikelyPathogenic" <=> (6 <= arg /\ arg < 10)
        /\ ret = "UncertainSignificance" <=> (0 <= arg /\ arg < 6)
        /\ ret = "LikelyBenign" <=> (0 - 6 <= arg /\ arg < 0)
        /\ ret = "Benign" <=> arg < 0 - 6
        /\ arg = 10 => ret = "Pathogenic"
        /\ arg \in {9, 6} => ret = "LikelyPathogenic"
        /\ arg \in {5, 0} => ret = "UncertainSignificance"
        /\ arg \in {0 - 1, 0 - 6} => ret = "LikelyBenign"
        /\ arg = 0 - 7 => ret = "Benign"

\* the boundary score -6 has been classified
C4_Witness ==
    /\ pc = "classification returned"
    /\ arg = 0 - 6
    /\ ret = "LikelyBenign"

\* C8: an Evidence built from any table entry, with no modifier or any of the
\* five, rendered with Display and parsed again gives Ok with the same table
\* entry and the same modifier; every table key is the rendering of its own
\* entry.
C8_DisplayParseRoundTrip ==
    /\ \A k \in DOMAIN EVIDENCE_CODES : EvidenceCode_fmt(EVIDENCE_CODES[k]) = k
    /\ pc = "reparse returned" =>
           /\ ret.kind = "Ok"
           /\ ret.value.evidence_code = arg.evidence_code
           /\ ret.value.modifier = arg.modifier

\* PVS1_VeryStrong has been rendered and parsed back
C8_Witness ==
    /\ pc = "reparse returned"
    /\ arg.evidence_code = [category |-> "Pathogenic", strength |-> "VeryStrong", code |-> 1]
    /\ arg.modifier = "VeryStrong"
    /\ ret.kind = "Ok"

---------------------------------------------------------------------------
(* The grammar of a token, stated on the upper-cased text u.               *)

\* a code (category letter, n - 2 strength letters, one digit) at i..i+n-1
GrammarCodeAt(u, i, n) ==
    /\ n \in {3, 4}
    /\ i + n - 1 <= Len(u)
    /\ u[i] \in {"B", "P"}
    /\ \A k \in (i + 1)..(i + n - 2) : u[k] \in {"A", "V", "S", "M", "P"}
    /\ u[i + n - 1] \in {"0", "1", "2", "3", "4", "5", "6", "7", "8", "9"}

GrammarStartsAt(u, i) == \E n \in {3, 4} : GrammarCodeAt(u, i, n)

GrammarFound(u) == \E i \in 1..Len(u) : GrammarStartsAt(u, i)

\* where the first occurrence starts, and its code
GrammarStart(u) ==
    CHOOSE i \in 1..Len(u) :
        GrammarStartsAt(u, i) /\ \A j \in 1..(i - 1) : ~GrammarStartsAt(u, j)

GrammarCodeLen(u) == CHOOSE n \in {3, 4} : GrammarCodeAt(u, GrammarStart(u), n)

GrammarCode(u) ==
    SubSeq(u, GrammarStart(u), GrammarStart(u) + GrammarCodeLen(u) - 1)

\* the letters of the modifier suffix: the longest run of letters after an
\* underscore that follows the code; empty when there is no such suffix
GrammarModifier(u) ==
    LET j == GrammarStart(u) + GrammarCodeLen(u) IN
    IF j <= Len(u) /\ u[j] = "_"
    THEN LET k == CHOOSE k \in 0..(Len(u) - j) :
                      /\ \A m \in 1..k : u[j + m] \in Range(UpperCase)
                      /\ j + k + 1 <= Len(u) => u[j + k + 1] \notin Range(UpperCase)
         IN  SubSeq(u, j + 1, j + k)
    ELSE <<>>

\* the strength a modifier suffix names, None for the empty suffix
NamedStrengths ==
    {<<STANDALONE, "StandAlone">>, <<VERYSTRONG, "VeryStrong">>, <<STRONG, "Strong">>,
     <<MODERATE, "Moderate">>, <<SUPPORTING, "Supporting">>, <<(<<>>), None>>}

IsStrengthName(m) == \E p \in NamedStrengths : p[1] = m /\ m # <<>>

\* the whole of u is one code with at most one modifier suffix
GrammarIsWholeToken(u) ==
    \E n \in {3, 4} :
        /\ GrammarCodeAt(u, 1, n)
        /\ \/ Len(u) = n
           \/ /\ Len(u) >= n + 2
              /\ u[n + 1] = "_"
              /\ \A k \in (n + 2)..Len(u) : u[k] \in Range(UpperCase)

TableKeys == {e.key : e \in Range(EvidenceCodeEntries)}

\* C6: parse_evidence has four outcomes, decided in this order: the grammar
\* is not found in the upper-cased token: 'Unable to parse evidence code';
\* else the captured code is no table key: 'Invalid evidence code' (also when
\* the modifier is bad); else a modifier suffix is present and names none of
\* STANDALONE, VERYSTRONG, STRONG, MODERATE, SUPPORTING: 'Invalid modifier';
\* else an Evidence of that table entry, with the named strength as modifier,
\* or none when there is no suffix.
C6_ParseOutcomesInOrder ==
    pc = "parse_evidence returned" =>
        LET u == to_uppercase(arg) IN
        IF ~GrammarFound(u)
            THEN ret.kind = "Err" /\ ret.text = "Unable to parse evidence code {}"
        ELSE IF GrammarCode(u) \notin TableKeys
            THEN ret.kind = "Err" /\ ret.text = "Invalid evidence code {}"
        ELSE IF GrammarModifier(u) # <<>> /\ ~IsStrengthName(GrammarModifier(u))
            THEN ret.kind = "Err" /\ ret.text = "Invalid modifier '{}' for evidence code {}"
        ELSE /\ ret.kind = "Ok"
             /\ \E e \in Range(EvidenceCodeEntries) :
                    /\ e.key = GrammarCode(u)
                    /\ ret.value.evidence_code =
                           [category |-> e.category, strength |-> e.strength, code |-> e.code]
             /\ <<GrammarModifier(u), ret.value.modifier>> \in NamedStrengths

\* a token whose code is unknown and whose modifier is bad has been rejected
\* for its code
C6_Witness ==
    /\ pc = "parse_evidence returned"
    /\ arg = <<"P", "S", "9", "_", "N", "o", "n", "s", "e", "n", "s", "e">>
    /\ ret.kind = "Err"
    /\ ret.text = "Invalid evidence code {}"

InvalidModifierReturned ==
    /\ pc = "parse_evidence returned"
    /\ ret.kind = "Err"
    /\ ret.text = "Invalid modifier '{}' for evidence code {}"

\* C7 as stated: the error for an unrecognized modifier quotes the modifier
\* in upper case and the whole token in upper case, whatever the case of the
\* input.
C7_QuotesUppercaseToken ==
    InvalidModifierReturned =>
        ret.args = <<GrammarModifier(to_uppercase(arg)), to_uppercase(arg)>>

\* C7 as the code has it: the error for an unrecognized modifier quotes the
\* modifier in upper case and the token as it was given, its case unchanged.
C7_QuotesTokenAsGiven ==
    InvalidModifierReturned =>
        ret.args = <<GrammarModifier(to_uppercase(arg)), arg>>

\* PVS1_Nonsense has been rejected, quoting NONSENSE and PVS1_Nonsense
C7_Witness ==
    /\ InvalidModifierReturned
    /\ arg = <<"P", "V", "S", "1", "_", "N", "o", "n", "s", "e", "n", "s", "e">>
    /\ ret.args[1] = <<"N", "O", "N", "S", "E", "N", "S", "E">>
    /\ ret.args[2] = arg
    /\ ret.args[2] # to_uppercase(arg)

\* C9: parse_evidence returns an Evidence only for a token that, upper-cased,
\* is in its entirety a category letter, one or two strength letters, one
\* digit and optionally '_' with one or more letters; anything before,
\* between or after these parts makes it an error.
C9_OnlyWholeTokensAccepted ==
    (pc = "parse_evidence returned" /\ ret.kind = "Ok") =>
        GrammarIsWholeToken(to_uppercase(arg))

---------------------------------------------------------------------------
(* Properties of run_info_command.                                         *)

Normalized == pc # "start"

\* the argument without brackets and without the white space at its ends
Cleaned ==
    LET t == SelectSeq(acmg_evidence, LAMBDA c : c \notin {"[", "]"})
        Solid == {i \in DOMAIN t : ~is_whitespace(t[i])}
    IN  IF Solid = {} THEN <<>>
        ELSE SubSeq(t, CHOOSE i \in Solid : \A j \in Solid : i <= j,
                       CHOOSE i \in Solid : \A j \in Solid : i >= j)

\* t with every maximal run of spaces and commas replaced by one comma
RECURSIVE RunsAsCommas(_, _)
RunsAsCommas(t, i) ==
    IF i > Len(t) THEN <<>>
    ELSE IF t[i] \notin {" ", ","} THEN <<t[i]>> \o RunsAsCommas(t, i + 1)
    ELSE IF i > 1 /\ t[i - 1] \in {" ", ","} THEN RunsAsCommas(t, i + 1)
    ELSE <<",">> \o RunsAsCommas(t, i + 1)

RECURSIVE JoinWithCommas(_)
JoinWithCommas(toks) ==
    IF Len(toks) <= 1 THEN Concat(toks)
    ELSE Head(toks) \o <<",">> \o JoinWithCommas(Tail(toks))

AllWhitespace(s) == \A i \in DOMAIN s : is_whitespace(s[i])

\* C10: normalize_input removes every bracket, trims the white space at both
\* ends and splits the rest on maximal runs of spaces and commas: no token
\* holds a space, a comma or a bracket and the tokens keep their order; an
\* empty or all-white-space argument gives exactly one empty token, which
\* does not parse, so the run aborts with an error and reports nothing.
C10_NormalizeSplitsOnRuns ==
    Normalized =>
        /\ Len(evidence_list) >= 1
        /\ \A i \in DOMAIN evidence_list :
               \A k \in DOMAIN evidence_list[i] :
                   evidence_list[i][k] \notin {" ", ",", "[", "]"}
        /\ JoinWithCommas(evidence_list) = RunsAsCommas(Cleaned, 1)
        /\ AllWhitespace(acmg_evidence) =>
               /\ evidence_list = << <<>> >>
               /\ pc \in {"collect", "panicked"}
               /\ idx = 1
               /\ out = <<>>
               /\ parse_evidence(evidence_list[1]).kind = "Err"
               /\ pc = "panicked" =>
                      /\ err.kind = "Err"
                      /\ err.text = "Unable to parse evidence code {}"
                      /\ err.args = << <<>> >>

\* an argument of white space only has made the run panic
C10_Witness ==
    /\ pc = "panicked"
    /\ acmg_evidence = <<" ", "\t">>
    /\ evidence_list = << <<>> >>
    /\ out = <<>>

Parsed(i) == parse_evidence(evidence_list[i])

AllParse == \A i \in DOMAIN evidence_list : Parsed(i).kind = "Ok"

\* the table key and the modifier a token refers to
CodeOf(i) == GrammarCode(to_uppercase(evidence_list[i]))

ModifierOf(i) ==
    LET m == GrammarModifier(to_uppercase(evidence_list[i]))
    IN  (CHOOSE p \in NamedStrengths : p[1] = m)[2]

TableEntry(k) ==
    LET e == CHOOSE e \in Range(EvidenceCodeEntries) : e.key = k
    IN  [category |-> e.category, strength |-> e.strength, code |-> e.code]

EvidenceOf(i) == [evidence_code |-> TableEntry(CodeOf(i)), modifier |-> ModifierOf(i)]

SignedMagnitude(e) ==
    IF e.evidence_code.category = "Pathogenic"
        THEN Magnitude(EffectiveStrength(e))
        ELSE 0 - Magnitude(EffectiveStrength(e))

RECURSIVE SumOfPoints(_)
SumOfPoints(S) ==
    IF S = {} THEN 0
    ELSE LET e == CHOOSE e \in S : TRUE IN SignedMagnitude(e) + SumOfPoints(S \ {e})

EvidenceLines == SelectSeq(out, LAMBDA l : l.line = "evidence")

\* C2: two parsed tokens collapse into one entry exactly when they refer to
\* the same table code and have the same modifier (or both none); the score
\* is the sum of the points of the distinct Evidence values, so a repeated
\* token counts once ("PVS1, PVS1, PVS1" gives one entry and score 8) and
\* one code with two modifier states gives two entries, both summed.
C2_DistinctEvidenceCountedOnce ==
    pc \in {"loop", "done"} =>
        LET Fact(i) ==
                LET e == EvidenceOf(i)
                IN  [token |-> i, code |-> CodeOf(i), modifier |-> e.modifier,
                     evidence |-> e, entries |-> {j \in DOMAIN set : set[j] = e}]
            facts == {Fact(i) : i \in DOMAIN evidence_list}
        IN  /\ \A f \in facts : Cardinality(f.entries) = 1
            /\ \A j \in DOMAIN set : \E f \in facts : j \in f.entries
            /\ \A f, g \in facts :
                   f.entries = g.entries <=>
                       (f.code = g.code /\ f.modifier = g.modifier)
            /\ pc = "done" =>
                   /\ Len(EvidenceLines) =
                          Cardinality({<<f.code, f.modifier>> : f \in facts})
                   /\ score = SumOfPoints({f.evidence : f \in facts})
                   /\ out[Len(out) - 1] = [line |-> "ACMG Score", value |-> score]
                   /\ evidence_list = <<<<"P", "V", "S", "1">>, <<"P", "V", "S", "1">>,
                                        <<"P", "V", "S", "1">>>> =>
                          Len(EvidenceLines) = 1 /\ score = 8

\* PM2, PM2_Supporting and PM2 again have been reported as two entries, 2 + 1
C2_Witness ==
    /\ pc = "done"
    /\ Len(evidence_list) = 3
    /\ evidence_list[1] = evidence_list[3]
    /\ Len(EvidenceLines) = 2
    /\ set[1].evidence_code = set[2].evidence_code
    /\ set[1].modifier = None /\ set[2].modifier = "Supporting"
    /\ score = 3

\* the order of the report, stated on (category, strength, code, modifier)
CategoryOrder == <<"Pathogenic", "Benign">>
StrengthOrder == <<"StandAlone", "VeryStrong", "Strong", "Moderate", "Supporting">>
ModifierOrder == <<None>> \o StrengthOrder

Position(order, x) == CHOOSE i \in DOMAIN order : order[i] = x

SortKey(e) ==
    <<Position(CategoryOrder, e.evidence_code.category),
      Position(StrengthOrder, e.evidence_code.strength),
      e.evidence_code.code,
      Position(ModifierOrder, e.modifier)>>

LexLess(a, b) ==
    \E i \in 1..4 : a[i] < b[i] /\ \A j \in 1..(i - 1) : a[j] = b[j]

\* what a run on the argument raw reports, for an argument whose tokens parse
RECURSIVE Collected(_, _)
Collected(toks, s) ==
    IF toks = <<>> THEN s
    ELSE Collected(Tail(toks), BTreeSet_insert(s, parse_evidence(Head(toks)).value))

ReportOf(raw) ==
    LET s == Collected(normalize_input(raw), <<>>)
    IN  [lines |-> [j \in DOMAIN s |-> ReportLine(s[j])],
         score |-> SumOfPoints(Range(s))]

\* the rearrangements of the tokens of this run
Rearrangements ==
    LET n == Len(evidence_list)
    IN  {[i \in 1..n |-> evidence_list[p[i]]] :
            p \in {q \in [1..n -> 1..n] : \A a, b \in 1..n : q[a] = q[b] => a = b}}

RECURSIVE JoinWith(_, _)
JoinWith(toks, sep) ==
    IF Len(toks) <= 1 THEN Concat(toks)
    ELSE Head(toks) \o sep \o JoinWith(Tail(toks), sep)

\* C3: when every token parses, the report lines are in strictly ascending
\* order of (category, default strength, code number, modifier), Pathogenic
\* before Benign, StandAlone < VeryStrong < Strong < Moderate < Supporting,
\* no modifier before any modifier; so arguments that are permutations of
\* the same tokens, with any separators and with or without brackets, give
\* the same report lines and the same score.
C3_ReportAscendingAndOrderIndependent ==
    pc = "done" =>
        /\ EvidenceLines = [j \in DOMAIN set |-> ReportLine(set[j])]
        /\ \A j, k \in DOMAIN set : j < k => LexLess(SortKey(set[j]), SortKey(set[k]))
        /\ \A toks \in Rearrangements, sep \in Separators, b \in BOOLEAN :
               ReportOf(Bracketed(JoinWith(toks, sep), b)) =
                   [lines |-> EvidenceLines, score |-> score]

\* BA1, PM2_Supporting, PVS1 given in the reverse of the report order
C3_Witness ==
    /\ pc = "done"
    /\ Len(evidence_list) = 3
    /\ Len(set) = 3
    /\ EvidenceOf(1) = set[3] /\ EvidenceOf(2) = set[2] /\ EvidenceOf(3) = set[1]
    /\ set[2].modifier = "Supporting"

FirstFailing ==
    CHOOSE i \in DOMAIN evidence_list :
        Parsed(i).kind = "Err" /\ \A j \in 1..(i - 1) : Parsed(j).kind = "Ok"

\* C5: a run fully succeeds or fully fails: if a token does not parse the run
\* aborts before any line of the report is printed, with the error of the
\* first failing token in input order; if every token parses the full report
\* is printed.
C5_AllOrNothing ==
    Normalized =>
        /\ ~AllParse =>
               /\ out = <<>>
               /\ pc \in {"collect", "panicked"}
               /\ idx <= FirstFailing
               /\ pc = "panicked" => err = Parsed(FirstFailing)
        /\ AllParse =>
               /\ pc # "panicked"
               /\ err = Unset
               /\ pc = "done" =>
                      /\ Len(out) = Len(EvidenceLines) + 4
                      /\ Len(EvidenceLines) =
                             Cardinality({Parsed(i).value : i \in DOMAIN evidence_list})
                      /\ SubSeq(out, 1, Len(EvidenceLines)) = EvidenceLines
                      /\ out[Len(out) - 3].line = "--------"
                      /\ out[Len(out) - 2].line = "Classification"
                      /\ out[Len(out) - 1].line = "ACMG Score"
                      /\ out[Len(out)].line = "Post Prob Path"

\* the second of three tokens failed first; the third fails differently
C5_Witness ==
    /\ pc = "panicked"
    /\ Len(evidence_list) = 3
    /\ Parsed(1).kind = "Ok"
    /\ err = Parsed(2)
    /\ Parsed(3).kind = "Err" /\ Parsed(3) # err
    /\ out = <<>>

=============================================================================
